---- MODULE Spec2Model ----
(***************************************************************************)
(* haproxystats: polling HAProxy instances for their CSV statistics export *)
(* and reshaping it into frontends, backends and listeners.                *)
(*                                                                         *)
(* Text is modelled as a sequence of one-character strings, so that        *)
(* strip / split / isdigit / int / encode are computed as the code         *)
(* computes them.  Python values are modelled by one record shape (Val).   *)
(***************************************************************************)
EXTENDS Integers, Sequences, FiniteSets, TLC

VARIABLES phase, servers, ret, clock, wire

vars == <<phase, servers, ret, clock, wire>>

----------------------------------------------------------------------------
(* Bounds of the model *)

\* longest list of host:port identifiers given to HaproxyStats
MaxServers == 2
\* number of top-level calls (the constructor and update()) in one behaviour
MaxClock == 2
\* most data rows of a table drawn as input of the parsing specification
MaxRows == 3
\* longest whitespace-only payload drawn as input of the parsing specification
MaxWsLen == 3

----------------------------------------------------------------------------
(* Python values *)

NoneVal == [t |-> "none", n |-> 0, s |-> <<>>, l |-> <<>>]
IntVal(i) == [t |-> "int", n |-> i, s |-> <<>>, l |-> <<>>]
StrVal(chars) == [t |-> "str", n |-> 0, s |-> chars, l |-> <<>>]
ListVal(items) == [t |-> "list", n |-> 0, s |-> <<>>, l |-> items]

----------------------------------------------------------------------------
(* Text *)

Digits == <<"0", "1", "2", "3", "4", "5", "6", "7", "8", "9">>

DigitChars == {Digits[i] : i \in DOMAIN Digits}

DigitValue(c) == (CHOOSE i \in DOMAIN Digits : Digits[i] = c) - 1

\* unicode.isdigit(): non-empty and every character a digit
isdigit(v) == Len(v) > 0 /\ \A i \in DOMAIN v : v[i] \in DigitChars

\* int(v) of a digit string, most significant digit first
RECURSIVE int(_)
int(v) == IF v = <<>> THEN 0 ELSE 10 * int(SubSeq(v, 1, Len(v) - 1)) + DigitValue(v[Len(v)])

\* the UTF-8 bytes of one character (U+00E9, e-acute, is the model's one non-ASCII character)
Utf8Char(c) == IF c = "U+00E9" THEN <<"xC3", "xA9">> ELSE <<c>>

RECURSIVE to_utf(_)
to_utf(s) == IF s = <<>> THEN <<>> ELSE Utf8Char(Head(s)) \o to_utf(Tail(s))

RECURSIVE lstrip(_, _)
lstrip(s, chars) == IF s # <<>> /\ Head(s) \in chars THEN lstrip(Tail(s), chars) ELSE s

RECURSIVE rstrip(_, _)
rstrip(s, chars) == IF s # <<>> /\ s[Len(s)] \in chars THEN rstrip(SubSeq(s, 1, Len(s) - 1), chars) ELSE s

\* unicode.strip(chars): both ends
strip(s, chars) == rstrip(lstrip(s, chars), chars)

\* unicode.split(sep) for a one-character sep: k separators give k+1 pieces
\* the pieces of s from position start on, scanning from position i
RECURSIVE SplitFrom(_, _, _, _)
SplitFrom(s, sep, start, i) ==
    IF i > Len(s) THEN <<SubSeq(s, start, Len(s))>>
    ELSE IF s[i] = sep THEN <<SubSeq(s, start, i - 1)>> \o SplitFrom(s, sep, i + 1, i + 1)
    ELSE SplitFrom(s, sep, start, i + 1)

split(s, sep) == SplitFrom(s, sep, 1, 1)

\* [ x for x in xs if x ]
RECURSIVE NonEmpty(_)
NonEmpty(xs) ==
    IF xs = <<>> THEN <<>>
    ELSE IF Head(xs) = <<>> THEN NonEmpty(Tail(xs))
    ELSE <<Head(xs)>> \o NonEmpty(Tail(xs))

RECURSIVE Concat(_)
Concat(xs) == IF xs = <<>> THEN <<>> ELSE Head(xs) \o Concat(Tail(xs))

----------------------------------------------------------------------------
(* Words of the export and of the code *)

K_pxname == <<"p", "x", "n", "a", "m", "e">>
K_svname == <<"s", "v", "n", "a", "m", "e">>
K_iid == <<"i", "i", "d">>
K_name == <<"n", "a", "m", "e">>
K_listener_names == <<"l", "i", "s", "t", "e", "n", "e", "r", "_", "n", "a", "m", "e", "s">>
W_FRONTEND == <<"F", "R", "O", "N", "T", "E", "N", "D">>
W_BACKEND == <<"B", "A", "C", "K", "E", "N", "D">>
W_http == <<"h", "t", "t", "p", ":", "/", "/">>
W_suffix == <<"/", ";", "c", "s", "v", ";", "n", "o", "r", "e", "f", "r", "e", "s", "h">>

----------------------------------------------------------------------------
(* HAProxyService *)

\* HAProxyService._read: digit strings become ints, text becomes UTF-8 bytes
ReadCell(v) == IF isdigit(v) THEN IntVal(int(v)) ELSE StrVal(to_utf(v))

_read(values) == [i \in DOMAIN values |-> ReadCell(values[i])]

Min(a, b) == IF a < b THEN a ELSE b

\* dict(zip(fields, vals)): zip stops at the shorter list, a repeated key keeps its last value
DictZip(fields, vals) ==
    LET m == Min(Len(fields), Len(vals))
    IN [k \in {fields[i] : i \in 1..m} |->
           vals[CHOOSE i \in 1..m : fields[i] = k /\ \A j \in (i + 1)..m : fields[j] # k]]

\* setattr on the object's __dict__
SetAttr(d, key, val) == [k \in DOMAIN d \cup {key} |-> IF k = key THEN val ELSE d[k]]

HasAttr(d, key) == key \in DOMAIN d

\* the test of HAProxyService.__init__ that picks pxname as the name
IsProxyRow(d) == d[K_svname] = StrVal(W_FRONTEND) \/ d[K_svname] = StrVal(W_BACKEND)

\* the attribute HAProxyService.__init__ copies into name
NameKey(d) == IF IsProxyRow(d) THEN K_pxname ELSE K_svname

\* self.name = ... on the zipped __dict__ d; reading a missing svname or pxname
\* raises AttributeError
SetName(d) ==
    IF ~HasAttr(d, K_svname) \/ ~HasAttr(d, NameKey(d))
    THEN [raised |-> TRUE, d |-> d]
    ELSE [raised |-> FALSE, d |-> SetAttr(d, K_name, d[NameKey(d)])]

\* HAProxyService.__init__: proxy_name is lost when __dict__ is replaced
HAProxyService(fields, values) == SetName(DictZip(fields, _read(values)))

----------------------------------------------------------------------------
(* HAProxyServer *)

\* base_url.split(':')[0]
ServerName(base_url) == split(base_url, ":")[1]

ServerUrl(base_url) == W_http \o base_url \o W_suffix

\* HAProxyServer.__init__: frontends, backends, listeners, stats and last_update
\* are not attributes yet (has_* = FALSE)
HAProxyServer(base_url, auth) ==
    [ name |-> ServerName(base_url), url |-> ServerUrl(base_url), auth |-> auth,
      failed |-> FALSE,
      has_lists |-> FALSE, frontends |-> <<>>, backends |-> <<>>, listeners |-> <<>>,
      has_stats |-> FALSE, stats |-> [frontends |-> <<>>, backends |-> <<>>, listeners |-> <<>>],
      has_last_update |-> FALSE, last_update |-> 0 ]

\* a gate that sends no credentials only when both are unset
NoCredentials_mut(auth) == \A i \in DOMAIN auth : auth[i] = NoneVal

\* the gate of _get: True means the request is built without credentials
NoCredentials(auth) == NoneVal \in {auth[i] : i \in DOMAIN auth}

\* the Request _get builds; auth = <<>> models a request without the auth argument
BuildRequest(url, auth) ==
    [method |-> "GET", url |-> url, auth |-> IF NoCredentials(auth) THEN <<>> ELSE auth]

\* a classification that misses the BACKEND branch
Bucket_mut(d) == IF d[K_svname] = StrVal(W_FRONTEND) THEN "frontends" ELSE "listeners"

\* which bucket fetch_stats appends a constructed service to
Bucket(d) ==
    IF d[K_svname] = StrVal(W_FRONTEND) THEN "frontends"
    ELSE IF d[K_svname] = StrVal(W_BACKEND) THEN "backends"
    ELSE "listeners"

\* service.listener_names = [] on a backend
Prepared(b, d) == IF b = "backends" THEN SetAttr(d, K_listener_names, ListVal(<<>>)) ELSE d

\* self.<bucket>.append(service)
Place(acc, b, d) == [acc EXCEPT ![b] = Append(@, Prepared(b, d))]

\* the loop over the data lines: stops at the first row whose construction raises
RECURSIVE AddServices(_, _, _)
RECURSIVE AddService(_, _, _, _)
AddService(fields, lines, acc, svc) ==
    IF svc.raised THEN [acc EXCEPT !.raised = TRUE]
    ELSE AddServices(fields, Tail(lines), Place(acc, Bucket(svc.d), svc.d))

AddServices(fields, lines, acc) ==
    IF lines = <<>> THEN acc
    ELSE AddService(fields, lines, acc, HAProxyService(fields, split(Head(lines), ",")))

\* a comparison of the backend's iid with itself
SameIid_mut(backend, listener) == backend[K_iid] = backend[K_iid]

\* backend.iid == listener.iid
SameIid(backend, listener) == backend[K_iid] = listener[K_iid]

\* backend.listener_names.append(listener.name)
AppendName(backend, listener) ==
    [backend EXCEPT ![K_listener_names] = ListVal(Append(@.l, listener[K_name]))]

\* the nested loop, listeners outside and backends inside, from pair (li, bi) on;
\* reading a missing iid raises AttributeError and leaves the names appended so far
RECURSIVE Link(_, _, _, _)
Link(backends, listeners, li, bi) ==
    IF li > Len(listeners) THEN [raised |-> FALSE, backends |-> backends]
    ELSE IF bi > Len(backends) THEN Link(backends, listeners, li + 1, 1)
    ELSE IF ~HasAttr(backends[bi], K_iid) \/ ~HasAttr(listeners[li], K_iid)
         THEN [raised |-> TRUE, backends |-> backends]
    ELSE IF SameIid(backends[bi], listeners[li])
         THEN Link([backends EXCEPT ![bi] = AppendName(@, listeners[li])], listeners, li, bi + 1)
    ELSE Link(backends, listeners, li, bi + 1)

\* the characters strip(' #') removes
StripSet == {" ", "#"}

\* [ l for l in text.strip(' #').split('\n') if l ]
CsvLines(text) == NonEmpty(split(strip(text, StripSet), "\n"))

\* [ to_utf(f) for f in header.split(',') if f ]
Fields(header) == LET fs == NonEmpty(split(header, ",")) IN [i \in DOMAIN fs |-> to_utf(fs[i])]

\* a response of the transport: text, or a failure of Session.send
TransportError == [kind |-> "error", text |-> <<>>]
Text(t) == [kind |-> "text", text |-> t]

NoServices == [raised |-> FALSE, frontends |-> <<>>, backends |-> <<>>, listeners |-> <<>>]

\* self.stats = {...}; self.last_update = datetime.utcnow()
Publish(s, now) ==
    [s EXCEPT !.has_stats = TRUE,
              !.stats = [frontends |-> s.frontends, backends |-> s.backends, listeners |-> s.listeners],
              !.has_last_update = TRUE, !.last_update = now]

\* the end of fetch_stats, after the linking loop
AfterLink(s, linked, now) ==
    IF linked.raised
    THEN [server |-> [s EXCEPT !.backends = linked.backends], outcome |-> "AttributeError"]
    ELSE [server |-> Publish([s EXCEPT !.backends = linked.backends], now), outcome |-> "None"]

\* fetch_stats after the loop over the data lines
AfterAdd(s, added, now) ==
    IF added.raised
    THEN [server |-> [s EXCEPT !.frontends = added.frontends, !.backends = added.backends,
                               !.listeners = added.listeners],
          outcome |-> "AttributeError"]
    ELSE AfterLink([s EXCEPT !.frontends = added.frontends, !.listeners = added.listeners],
                   Link(added.backends, added.listeners, 1, 1), now)

\* fetch_stats from "if not csv" on
ParseLines(s, csv, now) ==
    IF csv = <<>>
    THEN [server |-> [s EXCEPT !.failed = TRUE], outcome |-> "None"]
    ELSE AfterAdd(s, AddServices(Fields(Head(csv)), Tail(csv), NoServices), now)

\* the three assignments fetch_stats starts with
ResetLists(s) == [s EXCEPT !.has_lists = TRUE, !.frontends = <<>>, !.backends = <<>>, !.listeners = <<>>]

\* HAProxyServer.fetch_stats with the transport answering resp: the server after
\* the call, how the call ended ("None": it returned) and the request it sent
fetch_stats(s, resp, now) ==
    [req |-> BuildRequest(s.url, s.auth)] @@
    (IF resp.kind = "error"
     THEN [server |-> ResetLists(s), outcome |-> "HAProxyStatsException"]
     ELSE ParseLines(ResetLists(s), CsvLines(resp.text), now))

----------------------------------------------------------------------------
(* HaproxyStats *)

\* [ s for s in self.servers if s.failed ]
get_failed(srvs) == SelectSeq(srvs, LAMBDA s : s.failed)

\* for s in self.servers: s.fetch_stats(), from server i on; an exception of one
\* fetch leaves the loop at once (at = the server whose fetch raised)
RECURSIVE FetchLoop(_, _, _, _, _)
RECURSIVE FetchStep(_, _, _, _, _, _)
\* a loop that swallows the exception of a fetch and goes on with the next server
FetchStep_mut(srvs, resps, i, now, reqs, f) ==
    FetchLoop([srvs EXCEPT ![i] = f.server], resps, i + 1, now, Append(reqs, f.req))

FetchStep(srvs, resps, i, now, reqs, f) ==
    IF f.outcome # "None"
    THEN [servers |-> [srvs EXCEPT ![i] = f.server], outcome |-> f.outcome, at |-> i,
          reqs |-> Append(reqs, f.req)]
    ELSE FetchLoop([srvs EXCEPT ![i] = f.server], resps, i + 1, now, Append(reqs, f.req))

FetchLoop(srvs, resps, i, now, reqs) ==
    IF i > Len(srvs) THEN [servers |-> srvs, outcome |-> "None", at |-> 0, reqs |-> reqs]
    ELSE FetchStep(srvs, resps, i, now, reqs, fetch_stats(srvs[i], resps[i], now))

\* a result that looks at the last server only
UpdateResult_mut(srvs) == IF srvs # <<>> /\ srvs[Len(srvs)].failed THEN "False" ELSE "True"

\* what update() returns once the loop is over
UpdateResult(srvs) == IF get_failed(srvs) # <<>> THEN "False" ELSE "True"

\* HaproxyStats.update with the transport answering resps[i] to server i
Returned(r) == IF r.outcome # "None" THEN r ELSE [r EXCEPT !.outcome = UpdateResult(r.servers)]

update(srvs, resps, now) == Returned(FetchLoop(srvs, resps, 1, now, <<>>))

\* { s.name : s.stats for s in self.servers }: reading a missing stats attribute
\* raises AttributeError; of two servers with one name the later one's entry stays
all_stats(srvs) ==
    IF \E i \in DOMAIN srvs : ~srvs[i].has_stats
    THEN [raised |-> TRUE, value |-> [n \in {} |-> 0]]
    ELSE [raised |-> FALSE,
          value |-> [n \in {srvs[i].name : i \in DOMAIN srvs} |->
                        srvs[CHOOSE i \in DOMAIN srvs :
                                 srvs[i].name = n /\ \A j \in (i + 1)..Len(srvs) : srvs[j].name # n].stats]]

\* [ HAProxyServer(s, auth=(user, user_pass)) for s in servers ]
MakeServers(ids, user, user_pass) == [i \in DOMAIN ids |-> HAProxyServer(ids[i], <<user, user_pass>>)]

----------------------------------------------------------------------------
(* Inputs *)

\* cells joined into one export line; HAProxy ends every line with a comma
Line(cells) == Concat([i \in DOMAIN cells |-> cells[i] \o <<",">>])

\* an export: "# ", the header line, the data lines, each ended by a newline
Export(header, rows) == <<"#", " ">> \o Concat([i \in 1..(Len(rows) + 1) |-> (<<header>> \o rows)[i] \o <<"\n">>])

Header == Line(<<K_pxname, K_svname, K_iid>>)

Row_fe == Line(<<<<"w">>, W_FRONTEND, <<"1">>>>)
Row_be1 == Line(<<<<"w">>, W_BACKEND, <<"1">>>>)
Row_be2 == Line(<<<<"a">>, W_BACKEND, <<"2">>>>)
Row_l1 == Line(<<<<"w">>, <<"s", "1">>, <<"1">>>>)
Row_l2 == Line(<<<<"a">>, <<"s", "1">>, <<"2">>>>)

T_A == Export(Header, <<Row_fe, Row_be1, Row_l1>>)
T_empty == <<>>

\* what the transport may answer to a request of an update() cycle
Responses == {TransportError, Text(T_empty), Text(T_A)}

HostPorts == {<<"a", ":", "1">>, <<"a", ":", "2">>, <<"b", ":", "1">>}

SeqsUpTo(S, n) == UNION {[1..k -> S] : k \in 0..n}

\* lists of pairwise distinct host:port identifiers
ServerLists == {ids \in SeqsUpTo(HostPorts, MaxServers) : \A i, j \in DOMAIN ids : i # j => ids[i] # ids[j]}

\* rows of the parsing specification: a listener with a non-ASCII name and the
\* iid written 01, one whose iid is empty, and one cut short before its iid
Row_l3 == Line(<<<<"w">>, <<"s", "U+00E9">>, <<"0", "1">>>>)
Row_l4 == Line(<<<<"x">>, <<"s", "3">>, <<>>>>)
Row_short == <<"w", ",", "s", "4">>

ParseRows == {Row_fe, Row_be1, Row_be2, Row_l1, Row_l2, Row_l3, Row_l4, Row_short}

\* a header with a fourth, non-ASCII field name and no comma at its end
Header4 == Header \o <<"s", "t", "U+00E9">>

Headers == {Header, Header4}

Whitespace == {" ", "\t", "\n"}

\* what the transport may answer to the one request of the parsing specification
ParseInputs ==
    {TransportError}
    \cup {Text(Export(h, rows)) : h \in Headers, rows \in SeqsUpTo(ParseRows, MaxRows)}
    \cup {Text(w) : w \in SeqsUpTo(Whitespace, MaxWsLen)}

Users == {NoneVal, StrVal(<<"u">>)}
Passwords == {NoneVal, StrVal(<<"p">>)}

----------------------------------------------------------------------------
(* State *)

\* phase: "new" before HaproxyStats(...) is called, "ready" once it returned,
\*        "failed" when the constructor's update() raised and no object exists,
\*        "server" for one HAProxyServer polled on its own
\* servers: HaproxyStats.servers
\* ret: the last call: what it was, how it ended, the server whose fetch raised,
\*      the responses the transport gave and the requests sent, in order
\* clock: the calls made so far; datetime.utcnow() of a call reads clock + 1
\* wire: the response the transport holds for the next request of a server
\*       polled on its own (parsing specification), NoWire otherwise

NoRet == [op |-> "none", outcome |-> "none", at |-> 0, resps |-> <<>>, reqs |-> <<>>]
NoWire == [kind |-> "none", text |-> <<>>]

Init ==
    /\ phase = "new"
    /\ servers = <<>>
    /\ ret = NoRet
    /\ clock = 0
    /\ wire = NoWire

\* the record of a call: the responses consumed are those of the requests sent
Call(op, u, resps) ==
    [op |-> op, outcome |-> u.outcome, at |-> u.at, resps |-> SubSeq(resps, 1, Len(u.reqs)), reqs |-> u.reqs]

Raised(u) == u.outcome \notin {"True", "False"}

ConstructEnds(u, resps) ==
    /\ phase' = IF Raised(u) THEN "failed" ELSE "ready"
    /\ servers' = IF Raised(u) THEN <<>> ELSE u.servers
    /\ ret' = Call("init", u, resps)

\* HaproxyStats.__init__: builds the servers and runs one update()
Construct ==
    /\ phase = "new"
    /\ \E ids \in ServerLists, user \in Users, user_pass \in Passwords :
         \E resps \in [DOMAIN ids -> Responses] :
            ConstructEnds(update(MakeServers(ids, user, user_pass), resps, clock + 1), resps)
    /\ clock' = clock + 1
    /\ UNCHANGED wire

UpdateEnds(u, resps) ==
    /\ servers' = u.servers
    /\ ret' = Call("update", u, resps)

\* HaproxyStats.update
Update ==
    /\ phase = "ready"
    /\ clock < MaxClock
    /\ \E resps \in [DOMAIN servers -> Responses] : UpdateEnds(update(servers, resps, clock + 1), resps)
    /\ clock' = clock + 1
    /\ UNCHANGED <<phase, wire>>

Next == Construct \/ Update

Spec == Init /\ [][Next]_vars

----------------------------------------------------------------------------
(* Parsing specification: one HAProxyServer, as HaproxyStats builds it, and one
   fetch_stats() call on it; the response is drawn in the initial state *)

InitParse ==
    /\ phase = "server"
    /\ servers = MakeServers(<<<<"a", ":", "1">>>>, NoneVal, NoneVal)
    /\ ret = NoRet
    /\ clock = 0
    /\ wire \in ParseInputs

FetchEnds(f) ==
    /\ servers' = <<f.server>>
    /\ ret' = [op |-> "fetch_stats", outcome |-> f.outcome, at |-> IF f.outcome = "None" THEN 0 ELSE 1,
               resps |-> <<wire>>, reqs |-> <<f.req>>]

\* HAProxyServer.fetch_stats
FetchStats ==
    /\ phase = "server"
    /\ wire.kind # "none"
    /\ FetchEnds(fetch_stats(servers[1], wire, clock + 1))
    /\ wire' = NoWire
    /\ clock' = clock + 1
    /\ UNCHANGED phase

NextParse == FetchStats

SpecParse == InitParse /\ [][NextParse]_vars

----------------------------------------------------------------------------
(* Properties *)

\* a response that is text with at least one non-empty line after strip(' #')
IsTable(resp) == resp.kind = "text" /\ CsvLines(resp.text) # <<>>

\* the last call was a fetch_stats() that parsed a non-empty table and returned
ParsedTable == ret.op = "fetch_stats" /\ ret.outcome = "None" /\ IsTable(ret.resps[1])

\* the last call was an update() cycle (the constructor's included) that returned
CycleReturned == ret.op \in {"init", "update"} /\ ret.outcome \in {"True", "False"}

InNames(backend, listener) ==
    \E k \in DOMAIN backend[K_listener_names].l : backend[K_listener_names].l[k] = listener[K_name]

NamesOf(ds) == [i \in DOMAIN ds |-> ds[i][K_name]]

EntityLists(s) == [frontends |-> s.frontends, backends |-> s.backends, listeners |-> s.listeners]

NoEntities == [frontends |-> <<>>, backends |-> <<>>, listeners |-> <<>>]

\* C1, as stated: after fetch_stats() parsed a non-empty table, for every backend
\* B and listener L of the instance, L.name is in B.listener_names if and only if
\* L.iid == B.iid.
C1_Original ==
    ParsedTable =>
        \A b \in DOMAIN servers[1].backends, l \in DOMAIN servers[1].listeners :
            InNames(servers[1].backends[b], servers[1].listeners[l])
                <=> servers[1].listeners[l][K_iid] = servers[1].backends[b][K_iid]

\* C1, amended: after fetch_stats() parsed a non-empty table, every backend's
\* listener_names is the list of the names of the listeners whose iid equals the
\* backend's, in listener order; so L.iid == B.iid implies L.name in
\* B.listener_names, and L.name is in B.listener_names if and only if some listener
\* with L's name has B's iid.
C1_Linking ==
    ParsedTable =>
        \A b \in DOMAIN servers[1].backends :
            /\ servers[1].backends[b][K_listener_names].l
                  = NamesOf(SelectSeq(servers[1].listeners,
                                      LAMBDA L : L[K_iid] = servers[1].backends[b][K_iid]))
            /\ \A l \in DOMAIN servers[1].listeners :
                  InNames(servers[1].backends[b], servers[1].listeners[l])
                     <=> \E m \in DOMAIN servers[1].listeners :
                            /\ servers[1].listeners[m][K_name] = servers[1].listeners[l][K_name]
                            /\ servers[1].listeners[m][K_iid] = servers[1].backends[b][K_iid]

\* a parsed table with a listener named in the listener_names of a backend of
\* another iid, and a listener that matches no backend's name list by iid
C1_Witness ==
    /\ ParsedTable
    /\ \E b \in DOMAIN servers[1].backends, l \in DOMAIN servers[1].listeners :
          /\ InNames(servers[1].backends[b], servers[1].listeners[l])
          /\ servers[1].listeners[l][K_iid] # servers[1].backends[b][K_iid]

\* C2, as stated: when fetch_stats() of an instance ends with a transport failure,
\* the instance's frontends, backends and listeners are what they were before the call.
C2_Claim ==
    [][(ret'.op = "update" /\ ret'.outcome = "HAProxyStatsException")
          => EntityLists(servers'[ret'.at]) = EntityLists(servers[ret'.at])]_vars

\* C3, as stated: for every payload that is empty or only spaces, tabs and
\* newlines, fetch_stats() returns without raising, sets failed and leaves the
\* three lists empty.
C3_Claim ==
    (/\ ret.op = "fetch_stats"
     /\ ret.resps[1].kind = "text"
     /\ \A i \in DOMAIN ret.resps[1].text : ret.resps[1].text[i] \in {" ", "\t", "\n"})
        => /\ ret.outcome = "None"
           /\ servers[1].failed
           /\ EntityLists(servers[1]) = NoEntities

\* C4, as stated: once HaproxyStats exists, after any sequence of update()
\* cycles, all_stats() succeeds and maps every instance's name to the entities
\* the instance's three lists hold now.
C4_Claim ==
    phase = "ready" =>
        /\ ~all_stats(servers).raised
        /\ \A i \in DOMAIN servers : all_stats(servers).value[servers[i].name] = EntityLists(servers[i])

\* what the kind of a record is by the claim: its svname alone decides it
KindOf(rec) ==
    CASE rec[K_svname] = StrVal(W_FRONTEND) -> "frontends"
      [] rec[K_svname] = StrVal(W_BACKEND) -> "backends"
      [] OTHER -> "listeners"

\* the records of the data rows of a response, in input order, before any
\* attribute is derived
RowRecords(resp) ==
    [i \in DOMAIN Tail(CsvLines(resp.text)) |->
        DictZip(Fields(Head(CsvLines(resp.text))), _read(split(Tail(CsvLines(resp.text))[i], ",")))]

\* an entity without its derived attributes
Raw(d) == [k \in DOMAIN d \ {K_name, K_listener_names} |-> d[k]]

\* C5: an update() cycle that returned sent one request to every instance, in list
\* order, every instance given an empty table is failed with empty lists, every
\* instance given a table was updated in this cycle, and the result is True if
\* and only if no instance has failed set, that is, get_failed() is empty.
C5_Policy ==
    CycleReturned =>
        /\ Len(ret.reqs) = Len(servers)
        /\ Len(ret.resps) = Len(servers)
        /\ \A i \in DOMAIN servers :
              /\ ret.reqs[i].url = servers[i].url
              /\ ret.resps[i].kind = "text"
              /\ IsTable(ret.resps[i]) => servers[i].has_last_update /\ servers[i].last_update = clock
              /\ ~IsTable(ret.resps[i]) => servers[i].failed /\ EntityLists(servers[i]) = NoEntities
        /\ (ret.outcome = "True") <=> (\A i \in DOMAIN servers : ~servers[i].failed)
        /\ (ret.outcome = "True") <=> (get_failed(servers) = <<>>)

\* an update() that returned False: the first instance got an empty table and the
\* second one, after it, was fetched and updated in the same cycle
C5_Witness ==
    /\ ret.op = "update"
    /\ ret.outcome = "False"
    /\ Len(servers) = 2
    /\ ~IsTable(ret.resps[1])
    /\ IsTable(ret.resps[2])
    /\ servers[2].last_update = clock
    /\ servers[2].listeners # <<>>

\* the first position of a transport failure among the responses of a call
FirstError(resps) ==
    CHOOSE i \in DOMAIN resps : resps[i] = TransportError /\ \A j \in 1..(i - 1) : resps[j] # TransportError

\* what an instance holds once this cycle fetched it without an exception
HoldsCycle(s, resp, now) ==
    IF IsTable(resp)
    THEN s.has_last_update /\ s.last_update = now /\ s.has_stats /\ s.stats = EntityLists(s)
    ELSE s.failed /\ EntityLists(s) = NoEntities

\* C6: when the transport fails on the i-th instance of an update() cycle, the
\* call ends with that exception at i, exactly the instances 1..i were requested,
\* once each, every instance after i is unchanged, and every instance before i
\* holds what this cycle fetched.
C6_Halt ==
    [][(ret'.op = "update" /\ \E i \in DOMAIN ret'.resps : ret'.resps[i] = TransportError)
          => /\ ret'.outcome = "HAProxyStatsException"
             /\ ret'.at = FirstError(ret'.resps)
             /\ Len(ret'.reqs) = ret'.at
             /\ Len(servers') = Len(servers)
             /\ \A j \in 1..ret'.at : ret'.reqs[j].url = servers[j].url
             /\ \A j \in (ret'.at + 1)..Len(servers) : servers'[j] = servers[j]
             /\ \A j \in 1..(ret'.at - 1) : HoldsCycle(servers'[j], ret'.resps[j], clock')]_vars

\* an update() stopped by a transport failure on the first of two instances, the
\* second still holding the entities and the time of the earlier cycle
C6_Witness ==
    /\ ret.op = "update"
    /\ ret.outcome = "HAProxyStatsException"
    /\ ret.at = 1
    /\ Len(servers) = 2
    /\ servers[2].listeners # <<>>
    /\ servers[2].has_last_update
    /\ servers[2].last_update < clock

\* C7: after fetch_stats() parsed a table, each of the three lists is the
\* sub-list, in input order, of the rows' records of its kind (frontends: svname
\* is FRONTEND, backends: svname is BACKEND, listeners: all others), and an
\* entity's name is its pxname in frontends and backends, its svname in listeners.
C7_Partition ==
    ParsedTable =>
        /\ \A b \in {"frontends", "backends", "listeners"} :
              [k \in DOMAIN servers[1][b] |-> Raw(servers[1][b][k])]
                  = SelectSeq(RowRecords(ret.resps[1]), LAMBDA rec : KindOf(rec) = b)
        /\ \A k \in DOMAIN servers[1].frontends :
              servers[1].frontends[k][K_name] = servers[1].frontends[k][K_pxname]
        /\ \A k \in DOMAIN servers[1].backends :
              servers[1].backends[k][K_name] = servers[1].backends[k][K_pxname]
        /\ \A k \in DOMAIN servers[1].listeners :
              servers[1].listeners[k][K_name] = servers[1].listeners[k][K_svname]

\* a parsed table with a frontend, a backend and a listener
C7_Witness ==
    /\ ParsedTable
    /\ servers[1].frontends # <<>>
    /\ servers[1].backends # <<>>
    /\ servers[1].listeners # <<>>

\* C8, as stated: a request carries no credentials when username and password
\* are both unset, and the (username, password) pair when either is set.
C8_Original ==
    phase = "ready" =>
        \A i \in DOMAIN ret.reqs :
            /\ servers[i].auth = <<NoneVal, NoneVal>> => ret.reqs[i].auth = <<>>
            /\ servers[i].auth # <<NoneVal, NoneVal>> => ret.reqs[i].auth = servers[i].auth

\* C8, amended: a request carries no credentials when username or password is
\* unset, and the (username, password) pair when both are set.
C8_Credentials ==
    phase = "ready" =>
        \A i \in DOMAIN ret.reqs :
            /\ (servers[i].auth[1] = NoneVal \/ servers[i].auth[2] = NoneVal) => ret.reqs[i].auth = <<>>
            /\ (servers[i].auth[1] # NoneVal /\ servers[i].auth[2] # NoneVal)
                  => ret.reqs[i].auth = servers[i].auth

\* a request sent without credentials although the username is set
C8_Witness ==
    /\ phase = "ready"
    /\ ret.reqs # <<>>
    /\ servers[1].auth[1] # NoneVal
    /\ servers[1].auth[2] = NoneVal
    /\ ret.reqs[1].auth = <<>>

\* C9, as stated: an update() cycle in which every instance returned a non-empty
\* table returns True and leaves no instance failed, whatever happened before.
C9_Claim ==
    (CycleReturned /\ \A i \in DOMAIN ret.resps : IsTable(ret.resps[i]))
        => /\ ret.outcome = "True"
           /\ \A i \in DOMAIN servers : ~servers[i].failed
           /\ get_failed(servers) = <<>>

\* C10, as stated: after an update() in which every instance parsed a non-empty
\* table, all_stats() has as many keys as there are instances and holds every
\* instance's snapshot under its name.
C10_Claim ==
    (CycleReturned /\ \A i \in DOMAIN ret.resps : IsTable(ret.resps[i]))
        => /\ ~all_stats(servers).raised
           /\ Cardinality(DOMAIN all_stats(servers).value) = Len(servers)
           /\ \A i \in DOMAIN servers : all_stats(servers).value[servers[i].name] = servers[i].stats

====
